---- MODULE Spec2Model ----
(***************************************************************************)
(* A model of autoclicker.py: the ClickerEngine (start/stop of the click   *)
(* worker), the HotkeyManager (listener dispatch, recording) and the       *)
(* AutoClickerGUI handlers that drive them.                                *)
(*                                                                         *)
(* Threads of the program: the Tk main loop ("gui"), pynput's keyboard     *)
(* listener ("kbd"), pynput's mouse listener ("mouse") and the click_loop  *)
(* worker threads.  A step of a thread is one access to state shared with  *)
(* another thread; accesses to state no other thread touches are merged    *)
(* into the neighbouring step.                                             *)
(***************************************************************************)
EXTENDS Integers, Sequences, FiniteSets, TLC

\* ---------------------------------------------------------------- bounds
\* Worker thread slots (a finished thread's slot is reused).
MaxWorkers == 2
\* click_count and the number of performed clicks are explored up to this.
MaxClicks == 2
\* The start delay, in polls of 0.05 s, is drawn from 0..MaxDelay.
MaxDelay == 1
\* Pending root.after(0, _toggle_autoclick) callbacks.
MaxQueue == 1
\* Keys the user holds down at the same time.
MaxHeld == 1
\* Runs of _setup_hotkeys after the one of __init__.
MaxRebinds == 1
\* Length of the text of a numeric entry field.
MaxLen == 3

\* ------------------------------------------------------------- constants
Procs == {"gui", "kbd", "mouse"}
ClickMode == {"autoclick", "keybind", "normal"}
Slots == 1..MaxWorkers

\* pynput keys the user may press: two function keys and a character key.
Keys == {"Key.f6", "Key.f7", "KeyCode(a)"}

\* _key_to_name: key.name.upper() for a Key, key.char.upper() for a KeyCode
KeyToName(key) ==
    CASE key = "Key.f6" -> "F6"
      [] key = "Key.f7" -> "F7"
      [] key = "KeyCode(a)" -> "A"

\* str.lower() on the names that occur
Lower(name) ==
    CASE name = "F6" -> "f6"
      [] name = "F7" -> "f7"
      [] name = "A" -> "a"
      [] OTHER -> name

VARIABLES
    is_clicking,        \* ClickerEngine.is_clicking
    stop_event,         \* ClickerEngine._stop_event (TRUE: set)
    click_count,        \* ClickerEngine.click_count
    worker,             \* the click_loop threads: slot -> [pc, delay, elapsed, reg]
    click_thread,       \* ClickerEngine.click_thread: slot of the last thread, 0: None
    pc,                 \* position of the gui, kbd and mouse threads
    loc,                \* their locals
    is_active,          \* AutoClickerGUI.is_active
    current_mode,       \* AutoClickerGUI.current_mode
    afterQueue,         \* pending root.after(0, self._toggle_autoclick) callbacks
    callbacks,          \* HotkeyManager.callbacks: lower-case name -> handler
    gen,                \* number of the last _setup_hotkeys run (its closures)
    is_recording,       \* HotkeyManager.is_recording
    recording_callback, \* HotkeyManager.recording_callback: "none", or the mode
                        \* of lambda key: self._set_hotkey(mode, key)
    pressed_keys,       \* HotkeyManager.pressed_keys
    kill_hotkey,        \* autoclick_settings.kill_hotkey
    autoclick_hotkey,   \* keybind_settings.autoclick_hotkey
    held,               \* environment: keys physically down
    m1_down,            \* environment: left button physically down
    repeat,             \* environment: the last key press was of a key already down
    echo,               \* events of a simulated click the mouse listener has not seen
    text,               \* the text of a numeric entry field (a sequence of characters)
    fres,               \* what _get_float_value and click_loop make of it
    performed,          \* history: mouse clicks performed since the last reset
    stopRequested,      \* history: slot -> phase the worker was in at a stop_clicking()
    armed,              \* history: mode of a completed start_recording, until the next press
    quiet               \* history: a tab change completed and the user started nothing since

engineVars == <<is_clicking, stop_event, click_count, worker, click_thread,
                performed, stopRequested>>
guiVars == <<is_active, current_mode, afterQueue>>
hkVars == <<callbacks, gen, is_recording, recording_callback, pressed_keys,
            kill_hotkey, autoclick_hotkey>>
envVars == <<held, m1_down, repeat, echo>>
floatVars == <<text, fres>>
procVars == <<pc, loc>>

vars == <<engineVars, guiVars, hkVars, envVars, floatVars, procVars, armed, quiet>>

\* what no step of the engine or of a worker changes
notEngine == <<guiVars, hkVars, envVars, floatVars, armed, quiet>>

NoWorker == [pc |-> "none", delay |-> 0, elapsed |-> 0, reg |-> 0]
NoHandler == [kind |-> "none", gen |-> 0]
NoLoc == [delay |-> 0, cont |-> "idle", arg |-> "", ev |-> "", h |-> NoHandler]
NoResult == [state |-> "init"]

Alive(w) == worker[w].pc # "none"
Live == {w \in Slots : Alive(w)}

\* register_hotkey, line 148: self.callbacks[key_name.lower()] = callback
register_hotkey(cb, key_name, callback) ==
    [k \in DOMAIN cb \cup {Lower(key_name)} |->
        IF k = Lower(key_name) THEN callback ELSE cb[k]]

\* unregister_hotkey, lines 152-154: the lower-case name's entry is deleted
unregister_hotkey(cb, key_name) ==
    [k \in DOMAIN cb \ {Lower(key_name)} |-> cb[k]]

EmptyTable == [k \in {} |-> NoHandler]

\* _setup_hotkeys, lines 527-571, run as a whole with the closures of run g
SetupTable(kill, hold, g) ==
    register_hotkey(
        register_hotkey(
            register_hotkey(EmptyTable, kill, [kind |-> "autoclick", gen |-> g]),
            hold, [kind |-> "keybind", gen |-> g]),
        "m1", [kind |-> "normal", gen |-> g])

\* The state after AutoClickerGUI.__init__ (lines 217-239) and the dataclass
\* defaults (lines 39-55).
InitProgram ==
    /\ is_clicking = FALSE
    /\ stop_event = FALSE
    /\ click_count = 0
    /\ worker = [w \in Slots |-> NoWorker]
    /\ click_thread = 0
    /\ pc = [p \in Procs |-> "idle"]
    /\ loc = [p \in Procs |-> NoLoc]
    /\ is_active = FALSE
    /\ current_mode = "autoclick"
    /\ afterQueue = 0
    /\ kill_hotkey = "F6"
    /\ autoclick_hotkey = "F7"
    /\ gen = 1
    /\ callbacks = SetupTable("F6", "F7", 1)
    /\ is_recording = FALSE
    /\ recording_callback = "none"
    /\ pressed_keys = {}
    /\ held = {}
    /\ m1_down = FALSE
    /\ repeat = FALSE
    /\ echo = 0
    /\ performed = 0
    /\ stopRequested = [w \in Slots |-> ""]
    /\ armed = "none"
    /\ quiet = FALSE

Init ==
    /\ InitProgram
    /\ text = <<>>
    /\ fres = NoResult

\* ------------------------------------------------- ClickerEngine, callers
Goto(p, l) == pc' = [pc EXCEPT ![p] = l]
\* The caller's frame ends with the call: its locals are dropped.
Return(p) == /\ pc' = [pc EXCEPT ![p] = "idle"]
             /\ loc' = [loc EXCEPT ![p] = NoLoc]

\* A start_clicking without the test of line 82.
StartUnchecked(p) ==
    /\ pc[p] = "start_check"
    /\ Goto(p, "start_set")
    /\ UNCHANGED <<loc, engineVars, notEngine>>

\* start_clicking, line 82: if self.is_clicking: return
StartCheck(p) ==
    /\ pc[p] = "start_check"
    /\ IF is_clicking THEN Return(p)
                      ELSE Goto(p, "start_set") /\ UNCHANGED loc
    /\ UNCHANGED <<engineVars, notEngine>>

\* line 85: self.is_clicking = True
StartSet(p) ==
    /\ pc[p] = "start_set"
    /\ is_clicking' = TRUE
    /\ Goto(p, "start_clear")
    /\ UNCHANGED <<stop_event, click_count, worker, click_thread, performed,
                   stopRequested, notEngine, loc>>

\* line 86: self._stop_event.clear()
StartClear(p) ==
    /\ pc[p] = "start_clear"
    /\ stop_event' = FALSE
    /\ Goto(p, "start_thread")
    /\ UNCHANGED <<is_clicking, click_count, worker, click_thread, performed,
                   stopRequested, notEngine, loc>>

FreeSlots == {w \in Slots : ~Alive(w)}
FirstFree == CHOOSE w \in FreeSlots : \A v \in FreeSlots : w <= v

\* lines 107-108: the thread is created and started; click_loop begins with
\* line 89, if delay > 0.
StartThread(p) ==
    /\ pc[p] = "start_thread"
    /\ FreeSlots # {}
    /\ worker' = [worker EXCEPT ![FirstFree] =
                    [pc |-> IF loc[p].delay > 0 THEN "delay" ELSE "loop",
                     delay |-> loc[p].delay, elapsed |-> 0, reg |-> 0]]
    /\ click_thread' = FirstFree
    /\ Return(p)
    /\ UNCHANGED <<is_clicking, stop_event, click_count, performed, stopRequested,
                   notEngine>>

\* The phase of click_loop a live worker is in: its delay or its repeat loop.
Phase(w) == IF worker[w].pc = "delay" THEN "delay" ELSE "repeat"

\* stop_clicking, line 112: self._stop_event.set()
StopSet(p) ==
    /\ pc[p] = "stop_set"
    /\ stop_event' = TRUE
    /\ stopRequested' = [w \in Slots |->
                            IF Alive(w) /\ stopRequested[w] = "" THEN Phase(w)
                                                               ELSE stopRequested[w]]
    /\ Goto(p, "stop_flag")
    /\ UNCHANGED <<is_clicking, click_count, worker, click_thread, performed,
                   notEngine, loc>>

\* line 113: self.is_clicking = False; control returns to the caller
StopFlag(p) ==
    /\ pc[p] = "stop_flag"
    /\ is_clicking' = FALSE
    /\ IF loc[p].cont = "idle" THEN Return(p)
                                ELSE Goto(p, loc[p].cont) /\ UNCHANGED loc
    /\ UNCHANGED <<stop_event, click_count, worker, click_thread, performed,
                   stopRequested, notEngine>>

\* ------------------------------------------------------------ click_loop
SetWorker(w, r) == worker' = [worker EXCEPT ![w] = r]

\* lines 92-94: while elapsed < delay and not stop: sleep(0.05); elapsed += 0.05
WorkerDelay(w) ==
    /\ worker[w].pc = "delay"
    /\ IF worker[w].elapsed < worker[w].delay /\ ~stop_event
         THEN SetWorker(w, [worker[w] EXCEPT !.elapsed = @ + 1])
         ELSE SetWorker(w, [worker[w] EXCEPT !.pc = "loop", !.elapsed = 0,
                                             !.delay = 0])
    /\ UNCHANGED <<is_clicking, stop_event, click_count, click_thread, performed,
                   stopRequested, pc, loc, notEngine>>

\* line 98: while not self._stop_event.is_set()
WorkerCheck(w) ==
    /\ worker[w].pc = "loop"
    /\ SetWorker(w, [worker[w] EXCEPT !.pc = IF stop_event THEN "exit" ELSE "click"])
    /\ UNCHANGED <<is_clicking, stop_event, click_count, click_thread, performed,
                   stopRequested, pc, loc, notEngine>>

\* line 99 and the read of line 100: the click is sent, click_count is loaded.
\* mouse_controller.click(Button.left) is a press and a release of the left
\* button, which the mouse listener of line 132 observes like the user's; the
\* events of one click at most are kept pending here.
WorkerClick(w) ==
    /\ worker[w].pc = "click"
    /\ performed < MaxClicks
    /\ click_count < MaxClicks
    /\ performed' = performed + 1
    /\ echo' = 2
    /\ SetWorker(w, [worker[w] EXCEPT !.pc = "store", !.reg = click_count])
    /\ UNCHANGED <<is_clicking, stop_event, click_count, click_thread,
                   stopRequested, pc, loc, guiVars, hkVars, held, m1_down,
                   repeat, floatVars, armed, quiet>>

\* the store of line 100, then lines 101-103 (display callback, sleep)
WorkerStore(w) ==
    /\ worker[w].pc = "store"
    /\ click_count' = worker[w].reg + 1
    /\ SetWorker(w, [worker[w] EXCEPT !.pc = "loop", !.reg = 0])
    /\ UNCHANGED <<is_clicking, stop_event, click_thread, performed,
                   stopRequested, pc, loc, notEngine>>

\* line 105: self.is_clicking = False, and the thread ends
WorkerExit(w) ==
    /\ worker[w].pc = "exit"
    /\ is_clicking' = FALSE
    /\ SetWorker(w, NoWorker)
    /\ stopRequested' = [stopRequested EXCEPT ![w] = ""]
    /\ UNCHANGED <<stop_event, click_count, click_thread, performed,
                   pc, loc, notEngine>>


EngineCall(p) ==
    \/ StartCheck(p) \/ StartSet(p) \/ StartClear(p) \/ StartThread(p)
    \/ StopSet(p) \/ StopFlag(p)

\* lines 98-105: the repeat phase
WorkerRepeat(w) ==
    \/ WorkerCheck(w) \/ WorkerClick(w) \/ WorkerStore(w) \/ WorkerExit(w)

WorkerStep(w) == WorkerDelay(w) \/ WorkerRepeat(w)

\* ------------------------------------------------------------- GUI thread
SetLoc(p, r) == loc' = [loc EXCEPT ![p] = r]

\* _toggle_autoclick, lines 575-587: is_clicking is read; the delay is what
\* _get_float_value makes of the delay field.
ToggleBody ==
    IF is_clicking
      THEN /\ Goto("gui", "stop_set")
           /\ SetLoc("gui", NoLoc)
      ELSE /\ Goto("gui", "start_check")
           /\ \E d \in 0..MaxDelay : SetLoc("gui", [NoLoc EXCEPT !.delay = d])

\* The Start button of the Autoclick tab (line 379).
ToggleAutoclick ==
    /\ pc["gui"] = "idle"
    /\ current_mode = "autoclick"
    /\ ToggleBody
    /\ quiet' = FALSE
    /\ UNCHANGED <<engineVars, guiVars, hkVars, envVars, floatVars, armed>>

\* The callback queued by root.after(0, self._toggle_autoclick), line 532.
AfterToggleAutoclick ==
    /\ pc["gui"] = "idle"
    /\ afterQueue > 0
    /\ afterQueue' = afterQueue - 1
    /\ ToggleBody
    /\ UNCHANGED <<engineVars, is_active, current_mode, hkVars, envVars,
                   floatVars, armed, quiet>>

\* _toggle_keybind (lines 598-608) and _toggle_normal (lines 617-627), run
\* from the Enable button of their tab, where current_mode is already m: the
\* store of current_mode changes nothing and is taken with that of is_active.
\* Disabling goes on to stop_clicking.
ToggleMode(m) ==
    /\ is_active' = ~is_active
    /\ current_mode' = m
    /\ quiet' = FALSE
    /\ IF is_active THEN Goto("gui", "stop_set") ELSE UNCHANGED pc
    /\ UNCHANGED <<engineVars, afterQueue, hkVars, envVars, floatVars, armed, loc>>

ToggleKeybind ==
    /\ pc["gui"] = "idle"
    /\ current_mode = "keybind"
    /\ ToggleMode("keybind")

ToggleNormal ==
    /\ pc["gui"] = "idle"
    /\ current_mode = "normal"
    /\ ToggleMode("normal")

\* _on_tab_change, line 665: the user selected tab m; stop_clicking first
TabChange(m) ==
    /\ pc["gui"] = "idle"
    /\ m # current_mode
    /\ SetLoc("gui", [NoLoc EXCEPT !.cont = "tab_active", !.arg = m])
    /\ Goto("gui", "stop_set")
    /\ UNCHANGED <<engineVars, notEngine>>

\* line 668: self.is_active = False
TabActive ==
    /\ pc["gui"] = "tab_active"
    /\ is_active' = FALSE
    /\ Goto("gui", "tab_mode")
    /\ UNCHANGED <<engineVars, current_mode, afterQueue, hkVars, envVars,
                   floatVars, armed, quiet, loc>>

\* lines 685-691: self.current_mode = the mode of the selected tab
TabMode ==
    /\ pc["gui"] = "tab_mode"
    /\ current_mode' = loc["gui"].arg
    /\ quiet' = TRUE
    /\ Return("gui")
    /\ UNCHANGED <<engineVars, is_active, afterQueue, hkVars, envVars,
                   floatVars, armed>>

\* reset_click_count, line 76
ResetClickCount ==
    /\ pc["gui"] = "idle"
    /\ click_count' = 0
    /\ performed' = 0
    /\ UNCHANGED <<is_clicking, stop_event, worker, click_thread, stopRequested,
                   pc, loc, notEngine>>

\* _record_hotkey (lines 501-510) from the hotkey button of the tab of mode,
\* into start_recording, line 158: self.is_recording = True
RecordHotkey(mode) ==
    /\ pc["gui"] = "idle"
    /\ mode \in {"autoclick", "keybind"}
    /\ current_mode = mode
    /\ gen <= MaxRebinds
    /\ is_recording' = TRUE
    /\ SetLoc("gui", [NoLoc EXCEPT !.arg = mode])
    /\ Goto("gui", "rec_store")
    /\ UNCHANGED <<engineVars, guiVars, callbacks, gen, recording_callback,
                   pressed_keys, kill_hotkey, autoclick_hotkey, envVars,
                   floatVars, armed, quiet>>

\* start_recording, line 159: self.recording_callback = callback
RecStore ==
    /\ pc["gui"] = "rec_store"
    /\ recording_callback' = loc["gui"].arg
    /\ armed' = loc["gui"].arg
    /\ Return("gui")
    /\ UNCHANGED <<engineVars, guiVars, callbacks, gen, is_recording,
                   pressed_keys, kill_hotkey, autoclick_hotkey, envVars,
                   floatVars, quiet>>

\* ------------------------------------------------- the registered handlers
\* The calls self.callbacks[name](event_type) of lines 187, 196, 203, 206:
\* the table is looked up and the handler found is about to be called.
Dispatch(p, name, ev) ==
    IF Lower(name) \in DOMAIN callbacks
      THEN /\ SetLoc(p, [NoLoc EXCEPT !.ev = ev, !.h = callbacks[Lower(name)]])
           /\ Goto(p, "call")
      ELSE UNCHANGED <<pc, loc>>

\* The handler is entered.  autoclick_hotkey_handler, line 531; the first
\* operand of lines 541 and 559, not self.is_active.
HandlerCall(p) ==
    /\ pc[p] = "call"
    /\ IF loc[p].h.kind = "autoclick"
         THEN IF loc[p].ev = "press" /\ current_mode = "autoclick"
                THEN Goto(p, "after") /\ UNCHANGED loc
                ELSE Return(p)
         ELSE IF is_active THEN Goto(p, "h_mode") /\ UNCHANGED loc
                           ELSE Return(p)
    /\ UNCHANGED <<engineVars, notEngine>>

\* line 532: self.root.after(0, self._toggle_autoclick)
HandlerAfter(p) ==
    /\ pc[p] = "after"
    /\ afterQueue < MaxQueue
    /\ afterQueue' = afterQueue + 1
    /\ Return(p)
    /\ UNCHANGED <<engineVars, is_active, current_mode, hkVars, envVars,
                   floatVars, armed, quiet>>

\* The second operand of lines 541 and 559, self.current_mode != the
\* handler's mode, then the branch on event_type: a release goes to
\* stop_clicking (lines 549, 568).
HandlerMode(p) ==
    /\ pc[p] = "h_mode"
    /\ IF current_mode # loc[p].h.kind
         THEN Return(p)
         ELSE /\ Goto(p, IF loc[p].ev = "press" THEN "h_clicking" ELSE "stop_set")
              /\ UNCHANGED loc
    /\ UNCHANGED <<engineVars, notEngine>>

\* lines 544-546 and 562-565: if not self.engine.is_clicking, start_clicking
\* with delay 0 (keybind) or the delay field's value (normal)
HandlerClicking(p) ==
    /\ pc[p] = "h_clicking"
    /\ IF is_clicking
         THEN Return(p)
         ELSE /\ Goto(p, "start_check")
              /\ \E d \in (IF loc[p].h.kind = "keybind" THEN {0} ELSE 0..MaxDelay) :
                    SetLoc(p, [loc[p] EXCEPT !.delay = d])
    /\ UNCHANGED <<engineVars, notEngine>>

Handler(p) ==
    \/ HandlerCall(p) \/ HandlerMode(p) \/ HandlerClicking(p)

\* ------------------------------------------------------ keyboard listener
\* _on_key_press, lines 175-187: is_recording is read; when it is off the
\* name is added to pressed_keys and the table is looked up.
KeyPress(key) ==
    /\ pc["kbd"] = "idle"
    /\ Cardinality(held \cup {key}) <= MaxHeld
    /\ held' = held \cup {key}
    /\ repeat' = (key \in held)
    /\ armed' = "none"
    /\ quiet' = IF current_mode = "autoclick" THEN FALSE ELSE quiet
    /\ IF is_recording
         THEN /\ SetLoc("kbd", [NoLoc EXCEPT !.arg = KeyToName(key)])
              /\ Goto("kbd", "rec_clear")
              /\ UNCHANGED pressed_keys
         ELSE /\ pressed_keys' = pressed_keys \cup {Lower(KeyToName(key))}
              /\ Dispatch("kbd", KeyToName(key), "press")
    /\ UNCHANGED <<engineVars, guiVars, callbacks, gen, is_recording,
                   recording_callback, kill_hotkey, autoclick_hotkey, m1_down,
                   echo, floatVars>>

\* _on_key_release, lines 191-196
KeyRelease(key) ==
    /\ pc["kbd"] = "idle"
    /\ key \in held
    /\ held' = held \ {key}
    /\ pressed_keys' = pressed_keys \ {Lower(KeyToName(key))}
    /\ Dispatch("kbd", KeyToName(key), "release")
    /\ UNCHANGED <<engineVars, guiVars, callbacks, gen, is_recording,
                   recording_callback, kill_hotkey, autoclick_hotkey, m1_down,
                   repeat, echo, floatVars, armed, quiet>>

\* line 178: self.is_recording = False
RecClear ==
    /\ pc["kbd"] = "rec_clear"
    /\ is_recording' = FALSE
    /\ Goto("kbd", "rec_cb")
    /\ UNCHANGED <<engineVars, guiVars, callbacks, gen, recording_callback,
                   pressed_keys, kill_hotkey, autoclick_hotkey, envVars,
                   floatVars, armed, quiet, loc>>

\* lines 179-181: recording_callback is read and called with the key's name;
\* it is lambda key: self._set_hotkey(mode, key), lines 514-519.
RecCallback ==
    /\ pc["kbd"] = "rec_cb"
    /\ IF recording_callback = "none"
         THEN /\ Return("kbd")
              /\ UNCHANGED <<kill_hotkey, autoclick_hotkey>>
         ELSE /\ kill_hotkey' = IF recording_callback = "autoclick"
                                  THEN loc["kbd"].arg ELSE kill_hotkey
              /\ autoclick_hotkey' = IF recording_callback = "keybind"
                                       THEN loc["kbd"].arg ELSE autoclick_hotkey
              /\ SetLoc("kbd", NoLoc)
              /\ Goto("kbd", "setup_clear")
    /\ UNCHANGED <<engineVars, guiVars, callbacks, gen, is_recording,
                   recording_callback, pressed_keys, envVars, floatVars,
                   armed, quiet>>

\* One store into the table by _setup_hotkeys, which then goes on to next.
SetCallbacks(cb, g, next) ==
    /\ callbacks' = cb
    /\ gen' = g
    /\ IF next = "idle" THEN Return("kbd")
                        ELSE Goto("kbd", next) /\ UNCHANGED loc
    /\ UNCHANGED <<engineVars, guiVars, is_recording, recording_callback,
                   pressed_keys, kill_hotkey, autoclick_hotkey, envVars,
                   floatVars, armed, quiet>>

\* _setup_hotkeys, line 527: self.hotkey_manager.callbacks.clear(); the
\* closures of this run are numbered gen + 1
SetupClear ==
    /\ pc["kbd"] = "setup_clear"
    /\ SetCallbacks(EmptyTable, gen + 1, "setup_auto")

\* lines 534-537: register_hotkey(kill_hotkey, autoclick_hotkey_handler)
SetupAuto ==
    /\ pc["kbd"] = "setup_auto"
    /\ SetCallbacks(register_hotkey(callbacks, kill_hotkey,
                                    [kind |-> "autoclick", gen |-> gen]),
                    gen, "setup_hold")

\* lines 552-555: register_hotkey(autoclick_hotkey, keybind_hotkey_handler)
SetupHold ==
    /\ pc["kbd"] = "setup_hold"
    /\ SetCallbacks(register_hotkey(callbacks, autoclick_hotkey,
                                    [kind |-> "keybind", gen |-> gen]),
                    gen, "setup_m1")

\* line 571: register_hotkey("m1", normal_mode_handler)
SetupM1 ==
    /\ pc["kbd"] = "setup_m1"
    /\ SetCallbacks(register_hotkey(callbacks, "m1",
                                    [kind |-> "normal", gen |-> gen]),
                    gen, "idle")

Rebind == RecClear \/ RecCallback \/ SetupClear \/ SetupAuto \/ SetupHold \/ SetupM1

\* --------------------------------------------------------- mouse listener
\* _on_mouse_click, lines 200-205: the test "m1" in self.callbacks
MouseEvent ==
    /\ pc["mouse"] = "idle"
    /\ m1_down' = ~m1_down
    /\ IF "m1" \in DOMAIN callbacks
         THEN /\ SetLoc("mouse", [NoLoc EXCEPT !.ev = IF m1_down THEN "release"
                                                                ELSE "press"])
              /\ Goto("mouse", "m_fetch")
         ELSE UNCHANGED <<pc, loc>>
    /\ UNCHANGED <<engineVars, guiVars, hkVars, held, repeat, echo, floatVars,
                   armed, quiet>>

\* _on_mouse_click entered for an event of a simulated click (line 99): the
\* press first, then the release; the button under the user's finger is as
\* it was.
MouseEcho ==
    /\ pc["mouse"] = "idle"
    /\ echo > 0
    /\ echo' = echo - 1
    /\ IF "m1" \in DOMAIN callbacks
         THEN /\ SetLoc("mouse", [NoLoc EXCEPT !.arg = "echo",
                                               !.ev = IF echo = 2 THEN "press"
                                                                  ELSE "release"])
              /\ Goto("mouse", "m_fetch")
         ELSE UNCHANGED <<pc, loc>>
    /\ UNCHANGED <<engineVars, guiVars, hkVars, held, m1_down, repeat, floatVars,
                   armed, quiet>>

\* lines 203, 206: self.callbacks["m1"], a KeyError when the entry is gone:
\* the exception ends the listener thread
MouseFetch ==
    /\ pc["mouse"] = "m_fetch"
    /\ IF "m1" \in DOMAIN callbacks
         THEN /\ SetLoc("mouse", [loc["mouse"] EXCEPT !.h = callbacks["m1"]])
              /\ Goto("mouse", "call")
         ELSE /\ SetLoc("mouse", NoLoc)
              /\ Goto("mouse", "dead")
    /\ UNCHANGED <<engineVars, notEngine>>

\* ------------------------------------------------ numeric entry fields
\* The characters an entry field's text is drawn from here: a sign, a point,
\* digits, and the letters of "inf" and "nan".
Alphabet == {"-", ".", "0", "1", "5", "i", "n", "f", "a"}
Digits == {"0", "1", "5"}
DigitVal(c) == CASE c = "0" -> 0 [] c = "1" -> 1 [] c = "5" -> 5

RECURSIVE Texts(_)
Texts(n) ==
    IF n = 0 THEN {<<>>}
             ELSE Texts(n - 1) \cup
                  {Append(t, c) : t \in {u \in Texts(n - 1) : Len(u) = n - 1},
                                  c \in Alphabet}

RECURSIVE NatOf(_)
NatOf(s) == IF s = <<>> THEN 0
            ELSE 10 * NatOf(SubSeq(s, 1, Len(s) - 1)) + DigitVal(s[Len(s)])

RECURSIVE Pow10(_)
Pow10(k) == IF k = 0 THEN 1 ELSE 10 * Pow10(k - 1)

ValueError == [kind |-> "ValueError"]
Num(neg, n, d) == [kind |-> "num", neg |-> neg, n |-> n, d |-> d]

\* float(value), line 655, on a text over Alphabet: an optional sign, then
\* digits with at most one point and at least one digit, or inf, or nan; a
\* number is kept as the fraction n / d.
Float(value) ==
    LET neg == Len(value) > 0 /\ value[1] = "-"
        body == IF neg THEN Tail(value) ELSE value
        points == {i \in 1..Len(body) : body[i] = "."}
        digits == SelectSeq(body, LAMBDA c : c \in Digits)
    IN  IF body = <<"i", "n", "f">> THEN [kind |-> IF neg THEN "-inf" ELSE "inf"]
        ELSE IF body = <<"n", "a", "n">> THEN [kind |-> "nan"]
        ELSE IF /\ \A i \in 1..Len(body) : body[i] \in Digits \cup {"."}
                /\ Cardinality(points) <= 1
                /\ Len(digits) >= 1
          THEN Num(neg, NatOf(digits),
                   IF points = {} THEN 1
                   ELSE Pow10(Len(body) - (CHOOSE i \in points : TRUE)))
          ELSE ValueError

\* result <= 0 and result > 0 on floats: both are False of nan
LeqZero(x) ==
    CASE x.kind = "num" -> x.neg \/ x.n = 0
      [] x.kind = "-inf" -> TRUE
      [] OTHER -> FALSE

GtZero(x) ==
    CASE x.kind = "num" -> ~x.neg /\ x.n > 0
      [] x.kind = "inf" -> TRUE
      [] OTHER -> FALSE

\* _get_float_value, lines 652-660
GetFloatValue(value, default) ==
    LET result == Float(value)
    IN  IF result = ValueError THEN default
        ELSE IF LeqZero(result) THEN default
        ELSE result

\* A click_loop that sleeps its fallback interval whatever the rate.
IntervalFixed(clicks_per_sec) == Num(FALSE, 1, 10)

\* line 96: interval = 1.0 / clicks_per_sec if clicks_per_sec > 0 else 0.1
Interval(clicks_per_sec) ==
    IF GtZero(clicks_per_sec)
      THEN IF clicks_per_sec.kind = "inf" THEN Num(FALSE, 0, 1)
           ELSE Num(FALSE, clicks_per_sec.d, clicks_per_sec.n)
      ELSE Num(FALSE, 1, 10)

\* The defaults of the call sites: 10.0 (lines 545, 563, 584), 1.0 (line 585),
\* 0.5 (line 564)
Defaults == {Num(FALSE, 10, 1), Num(FALSE, 1, 1), Num(FALSE, 5, 10)}

\* An entry field holds any text.
InitFloat ==
    /\ InitProgram
    /\ text \in Texts(MaxLen)
    /\ fres = NoResult

\* A handler reads the field through _get_float_value.
ReadField ==
    /\ fres.state = "init"
    /\ \E default \in Defaults :
         fres' = [state |-> "value", default |-> default,
                  value |-> GetFloatValue(text, default)]
    /\ UNCHANGED <<engineVars, guiVars, hkVars, envVars, procVars, text, armed, quiet>>

\* click_loop computes its sleep interval from the value as the rate.
LoopInterval ==
    /\ fres.state = "value"
    /\ fres' = [state |-> "interval", default |-> fres.default,
                value |-> fres.value, interval |-> Interval(fres.value)]
    /\ UNCHANGED <<engineVars, guiVars, hkVars, envVars, procVars, text, armed, quiet>>

NextFloat == ReadField \/ LoopInterval

SpecFloat == InitFloat /\ [][NextFloat]_vars

\* ------------------------------------------------------- specifications
\* The whole program.  Its state space is too large to enumerate; the
\* specifications below are the program with the user confined to some of the
\* controls, so every behaviour of theirs is a behaviour of the program.
Next ==
    \/ ToggleAutoclick \/ AfterToggleAutoclick \/ ToggleKeybind \/ ToggleNormal
    \/ \E m \in ClickMode : TabChange(m)
    \/ TabActive \/ TabMode
    \/ ResetClickCount
    \/ \E m \in ClickMode : RecordHotkey(m)
    \/ RecStore
    \/ \E key \in Keys : KeyPress(key) \/ KeyRelease(key)
    \/ Rebind
    \/ MouseEvent \/ MouseEcho \/ MouseFetch
    \/ \E p \in {"kbd", "mouse"} : Handler(p)
    \/ HandlerAfter("kbd")
    \/ \E p \in Procs : EngineCall(p)
    \/ \E w \in Slots : WorkerStep(w)

Spec == Init /\ [][Next]_vars

\* The engine driven from the Autoclick tab alone: the Start button, the
\* Reset button and the workers.
NextEngine ==
    \/ ToggleAutoclick
    \/ ResetClickCount
    \/ EngineCall("gui")
    \/ \E w \in Slots : WorkerStep(w)

SpecEngine == Init /\ [][NextEngine]_vars

\* The scheduler runs every thread that can run: each worker is treated fairly.
FairSpecEngine == SpecEngine /\ \A w \in Slots : WF_vars(WorkerStep(w))

\* Rebinding: the hotkey buttons, the tabs they are on, the keyboard and the
\* mouse listener; no mode is enabled and the queued toggles are not run.
NextHotkeys ==
    \/ \E m \in ClickMode : TabChange(m)
    \/ TabActive \/ TabMode
    \/ StopSet("gui") \/ StopFlag("gui")
    \/ \E m \in ClickMode : RecordHotkey(m)
    \/ RecStore
    \/ \E key \in Keys : KeyPress(key) \/ KeyRelease(key)
    \/ Rebind
    \/ MouseEvent \/ MouseFetch
    \/ \E p \in {"kbd", "mouse"} : HandlerCall(p)
    \/ HandlerAfter("kbd")

SpecHotkeys == Init /\ [][NextHotkeys]_vars

\* Keybind mode with the hold key of __init__: the tabs, the Enable button,
\* the keyboard listener and the workers (started with no delay).
NextKeybind ==
    \/ ToggleKeybind
    \/ \E m \in ClickMode : TabChange(m)
    \/ TabActive \/ TabMode
    \/ KeyPress("Key.f7") \/ KeyRelease("Key.f7")
    \/ Handler("kbd")
    \/ \E p \in {"gui", "kbd"} : EngineCall(p)
    \/ \E w \in Slots : WorkerRepeat(w)

SpecKeybind == Init /\ [][NextKeybind]_vars

\* Normal mode: the Normal tab is selected, then the Enable button, the mouse
\* listener with the user's button events and those of the simulated clicks,
\* and the workers.
NextNormal ==
    \/ ToggleNormal
    \/ TabChange("normal")
    \/ TabActive \/ TabMode
    \/ MouseEvent \/ MouseEcho \/ MouseFetch
    \/ Handler("mouse")
    \/ \E p \in {"gui", "mouse"} : EngineCall(p)
    \/ \E w \in Slots : WorkerStep(w)

SpecNormal == Init /\ [][NextNormal]_vars

\* Autoclick mode with the hotkey of __init__: the keyboard listener, the
\* toggles it queues for the GUI thread, the tabs and the workers.
NextAutoclick ==
    \/ AfterToggleAutoclick
    \/ \E m \in ClickMode : TabChange(m)
    \/ TabActive \/ TabMode
    \/ KeyPress("Key.f6") \/ KeyRelease("Key.f6")
    \/ HandlerCall("kbd") \/ HandlerAfter("kbd")
    \/ EngineCall("gui")
    \/ \E w \in Slots : WorkerStep(w)

SpecAutoclick == Init /\ [][NextAutoclick]_vars

\* Two callers of start_clicking: the keybind handler in the keyboard
\* listener thread and the Start button of the Autoclick tab in the GUI
\* thread, with the tabs and the Enable button of the Keybind tab.
NextStarters ==
    \/ ToggleAutoclick
    \/ ToggleKeybind
    \/ \E m \in {"autoclick", "keybind"} : TabChange(m)
    \/ TabActive \/ TabMode
    \/ KeyPress("Key.f7") \/ KeyRelease("Key.f7")
    \/ Handler("kbd")
    \/ \E p \in {"gui", "kbd"} : EngineCall(p)
    \/ \E w \in Slots : WorkerStep(w)

SpecStarters == Init /\ [][NextStarters]_vars

\* ------------------------------------------------------------- claims
\* The bounds MaxClicks on the counters are reached.
AtCap == performed = MaxClicks \/ click_count = MaxClicks

\* A click loop is running: a worker in its delay or its repeat phase that
\* has not found the stop signal set, with the signal clear.
LoopRunning ==
    /\ ~stop_event
    /\ \E w \in Slots : worker[w].pc \in {"delay", "loop", "click", "store"}

\* C1: once stop_clicking() has been called, a worker that was alive at the
\* call leaves the loop at its next check of the stop signal: it never finds
\* the signal clear again and goes on to click, whatever start_clicking calls
\* follow the stop.
C1_StopHaltsWorker ==
    [][\A w \in Slots :
          (stopRequested[w] # "" /\ worker[w].pc = "loop")
              => worker'[w].pc # "click"]_vars

\* C2: in every reachable state at most one click worker is alive.
C2_AtMostOneWorker == Cardinality(Live) <= 1

\* C3: under fair scheduling of the workers, every worker that was alive at a
\* stop_clicking() eventually terminates (or the model's bound on the click
\* counters is reached), whatever calls follow.
C3_StoppedWorkerTerminates ==
    \A w \in Slots : (stopRequested[w] # "") ~> (~Alive(w) \/ AtCap)

\* C8: click_count changes only by a performed click's store, which adds
\* exactly 1, and by reset_click_count, which sets it to 0; start_clicking and
\* stop_clicking leave it alone, so it never decreases between two resets.
C8_CountChangesByOneOrReset ==
    [][\/ click_count' = click_count
       \/ /\ click_count' = click_count + 1
          /\ \E w \in Slots : worker[w].pc = "store" /\ worker'[w].pc = "loop"
       \/ /\ click_count' = 0
          /\ performed' = 0
          /\ pc["gui"] = "idle"]_vars

\* C9: a worker that was in its delay phase when stop_clicking() was called
\* never performs a mouse click.
C9_DelayCancelable ==
    \A w \in Slots : stopRequested[w] = "delay" => worker[w].pc # "store"

\* C4: when _on_tab_change completes, the stop signal is set, is_clicking and
\* is_active are False, and from then on no click is performed until the user
\* starts or enables clicking again.
C4_TabChangeStopsClicking ==
    [][/\ (pc["gui"] = "tab_mode" /\ pc'["gui"] = "idle")
            => (stop_event' /\ ~is_clicking' /\ ~is_active')
       /\ quiet => \A w \in Slots :
                      ~(worker[w].pc = "click" /\ worker'[w].pc = "store")]_vars

\* _setup_hotkeys is between its clear() and its last register_hotkey.
Rebinding == pc["kbd"] \in {"setup_auto", "setup_hold", "setup_m1"}

\* C5: once a rebind has completed, no handler of an earlier table is
\* called: every handler a listener enters is one of the last
\* _setup_hotkeys run.
C5_PreviousHandlerNeverInvoked ==
    [][\A p \in {"kbd", "mouse"} :
          (pc[p] = "call" /\ pc'[p] # "call")
              => (Rebinding \/ loc[p].h.gen = gen)]_vars

\* C6: a left-button event is never dropped for want of an "m1" entry, and a
\* lookup that found "m1" present does not fail on the access that follows.
C6_TableReplacedAtomically ==
    [][/\ m1_down' # m1_down => pc'["mouse"] = "m_fetch"
       /\ pc["mouse"] = "m_fetch" => pc'["mouse"] # "dead"]_vars

\* C10: the first key press after a completed start_recording(cb) takes the
\* recording path with cb as the callback, and is not added to pressed_keys.
C10_NextPressIsRecorded ==
    [][(armed # "none" /\ armed' = "none")
          => /\ pc'["kbd"] = "rec_clear"
             /\ recording_callback = armed
             /\ pressed_keys' = pressed_keys]_vars

\* C7: _get_float_value returns the default when the text is not a number or
\* parses to a value <= 0 and the parsed value when that is positive, and the
\* click loop started with the value as its rate sleeps a positive interval,
\* 0.1 when the rate is not positive.
C7_InvalidFallsBackToDefault ==
    /\ fres.state \in {"value", "interval"} =>
          LET r == Float(text)
          IN  /\ (r = ValueError \/ LeqZero(r)) => fres.value = fres.default
              /\ (r # ValueError /\ GtZero(r)) => fres.value = r
    /\ fres.state = "interval" =>
          /\ GtZero(fres.interval)
          /\ ~GtZero(fres.value) => fres.interval = Num(FALSE, 1, 10)

\* C11: every key or button event is dispatched to zero or one handler.  When
\* not recording, a press (release) of a key whose lower-case name is in the
\* table calls that entry's handler with "press" ("release"), and a key with
\* no entry calls nothing; every left-button event calls the "m1" handler,
\* the normal-mode one, with the event's type; register_hotkey replaces the
\* entry of an existing name and unregister_hotkey removes it.
KeyDispatched(key, ev) ==
    IF Lower(KeyToName(key)) \in DOMAIN callbacks
      THEN /\ pc'["kbd"] = "call"
           /\ loc'["kbd"].h = callbacks[Lower(KeyToName(key))]
           /\ loc'["kbd"].ev = ev
      ELSE pc'["kbd"] = "idle"

TableUpdates ==
    \A name \in {KeyToName(key) : key \in Keys} \cup {"m1"} :
        LET h == [kind |-> "normal", gen |-> gen + 1]
            r == register_hotkey(callbacks, name, h)
            u == unregister_hotkey(callbacks, name)
        IN  /\ DOMAIN r = DOMAIN callbacks \cup {Lower(name)}
            /\ \A k \in DOMAIN r : r[k] = IF k = Lower(name) THEN h ELSE callbacks[k]
            /\ DOMAIN u = DOMAIN callbacks \ {Lower(name)}
            /\ \A k \in DOMAIN u : u[k] = callbacks[k]

C11_DispatchedToItsHandler ==
    [][/\ \A key \in Keys :
            /\ (KeyPress(key) /\ ~is_recording) => KeyDispatched(key, "press")
            /\ KeyRelease(key) => KeyDispatched(key, "release")
       /\ m1_down' # m1_down => pc'["mouse"] = "m_fetch"
       /\ (pc["mouse"] = "m_fetch" /\ pc'["mouse"] # "m_fetch")
            => /\ pc'["mouse"] = "call"
               /\ loc'["mouse"].h.kind = "normal"
               /\ loc'["mouse"].ev = loc["mouse"].ev
       /\ TableUpdates]_vars

\* C12: Keybind mode clicks while the hold key is held.  With the mode
\* enabled a press of the hold key that finds no loop running starts one with
\* no delay, a release stops it, and a press event repeated for the key
\* already held starts no worker beside a live one; with the mode not enabled
\* (is_active False, or current_mode not KEYBIND) the handler returns and
\* leaves the engine alone.
C12_KeybindClicksWhileHeld ==
    [][/\ (pc["kbd"] = "start_thread" /\ pc'["kbd"] = "idle")
            => /\ loc["kbd"].delay = 0
               /\ repeat => Live = {}
       /\ (pc["kbd"] = "stop_flag" /\ pc'["kbd"] = "idle")
            => (stop_event' /\ ~is_clicking')
       /\ (pc["kbd"] = "call" /\ ~is_active) => pc'["kbd"] \in {"call", "idle"}
       /\ (pc["kbd"] = "h_mode" /\ current_mode # "keybind")
            => pc'["kbd"] \in {"h_mode", "idle"}]_vars

\* C13: Normal mode clicks while the left button is held.  The stop signal is
\* set only by the GUI thread (a mode disable, a tab change) or by the mouse
\* listener handling a release of the user's; a press or release event of a
\* simulated click neither stops the loop nor starts one.
C13_OwnClicksDoNotStopLoop ==
    [][/\ (stop_event' /\ ~stop_event)
            => \/ pc["gui"] = "stop_set"
               \/ /\ pc["mouse"] = "stop_set"
                  /\ loc["mouse"].ev = "release"
                  /\ loc["mouse"].arg # "echo"
       /\ loc["mouse"].arg = "echo"
            => pc'["mouse"] \notin {"stop_set", "start_check"}]_vars

\* C14: in Autoclick mode the hotkey is a kill switch.  The toggle queued by
\* a press of the hotkey stops the loop when one is running and starts one,
\* with the configured delay, when no worker is alive; a press handled while
\* current_mode is not AUTOCLICK queues no toggle and leaves the engine alone.
C14_HotkeyIsKillSwitch ==
    [][/\ (pc["gui"] = "idle" /\ afterQueue' < afterQueue)
            => /\ LoopRunning => pc'["gui"] = "stop_set"
               /\ Live = {} => pc'["gui"] = "start_check"
       /\ (pc["kbd"] = "call" /\ current_mode # "autoclick")
            => pc'["kbd"] \in {"call", "idle"}]_vars

C16_IgnoredStartIsNoOp ==
    [][\A p \in Procs :
          (pc[p] = "start_check" /\ pc'[p] # "start_check" /\ is_clicking)
              => /\ pc'[p] = "idle"
                 /\ UNCHANGED <<is_clicking, stop_event, click_thread,
                                click_count, worker>>]_vars

\* the keybind handler's start_clicking is at line 82 after the Start button
\* of the GUI thread set is_clicking
C16_Witness ==
    /\ pc["kbd"] = "start_check"
    /\ is_clicking
    /\ Live # {}

\* C17: the is_clicking flag agrees with the worker.  Whenever is_clicking is
\* False, every live worker has the stop signal set; put the other way
\* round, a running loop (a live worker, the signal clear) has is_clicking
\* True, also after an older worker's late exit.
C17_FlagAgreesWithWorker ==
    /\ ~is_clicking => (Live = {} \/ stop_event)
    /\ LoopRunning => is_clicking

\* C18: click_count is exact.  Whenever no worker is between its click and
\* the store of its increment, click_count equals the number of clicks
\* performed since the last reset_click_count (or since creation).
C18_CountIsExact ==
    (\A w \in Slots : worker[w].pc # "store") => click_count = performed

\* C19: clicking only happens in a mode that permits it.  Whenever a click
\* loop is running and the GUI thread is between two of its callbacks,
\* current_mode is AUTOCLICK, or is_active is True and current_mode is KEYBIND
\* or NORMAL.
C19_ClickingOnlyInPermittingMode ==
    (LoopRunning /\ pc["gui"] = "idle")
        => \/ current_mode = "autoclick"
           \/ is_active /\ current_mode \in {"keybind", "normal"}

\* C20: every binding keeps its own handler.  Whenever no _setup_hotkeys is
\* under way, the table's entry of the autoclick hotkey is the autoclick
\* toggle handler, the entry of the keybind key is the keybind handler, and
\* the entry of "m1" is the normal-mode handler, whatever the two names are.
C20_EveryBindingKeepsItsHandler ==
    (pc["kbd"] \notin {"setup_clear", "setup_auto", "setup_hold", "setup_m1"})
        => /\ Lower(kill_hotkey) \in DOMAIN callbacks
           /\ callbacks[Lower(kill_hotkey)].kind = "autoclick"
           /\ Lower(autoclick_hotkey) \in DOMAIN callbacks
           /\ callbacks[Lower(autoclick_hotkey)].kind = "keybind"
           /\ "m1" \in DOMAIN callbacks
           /\ callbacks["m1"].kind = "normal"

============================================================================
